---- MODULE Spec2Model ----
(***************************************************************************)
(* axum-jrpc: the JSON-RPC 2.0 extractor (JsonRpcExtractor) and response   *)
(* (JsonRpcResponse) of src/lib.rs, as a state machine over one request   *)
(* pipeline at a time: from_request, the operations on the extracted       *)
(* handle, the response constructors and into_response.                    *)
(*                                                                         *)
(* Strings are sequences of one-character strings, so that format!() is    *)
(* concatenation and "contains" is a sub-sequence test.                   *)
(***************************************************************************)
EXTENDS Integers, Sequences, FiniteSets, TLC

VARIABLES
    handle,  \* the JsonRpcExtractor of the request being handled
    call,    \* the last operation performed, its arguments and what it returned
    resp,    \* the JsonRpcResponse the pipeline holds, not yet serialized
    wire     \* the serialized response of the current exchange

vars == <<handle, call, resp, wire>>

(* ------------------------------ bounds -------------------------------- *)

\* request ids range over -IdBound .. IdBound
IdBound == 1
\* arrays and payload integers range over 0 .. MaxNum
MaxNum == 3

Ids == (0 - IdBound) .. IdBound

(* ------------------------------ strings ------------------------------- *)

V20 == <<"2", ".", "0">>
V10 == <<"1", ".", "0">>
\* a version string that only starts with 2.0
V200 == <<"2", ".", "0", "0">>
Empty == <<>>
Add == <<"a", "d", "d">>
Foo == <<"f", "o", "o">>
InvalidVersionMsg ==
    <<"I", "n", "v", "a", "l", "i", "d", " ", "j", "s", "o", "n", "r", "p", "c",
      " ", "v", "e", "r", "s", "i", "o", "n">>
\* format!("Method `{}` not found", method); the backquote is written '
MethodPrefix == <<"M", "e", "t", "h", "o", "d", " ", "'">>
MethodSuffix == <<"'", " ", "n", "o", "t", " ", "f", "o", "u", "n", "d">>
\* diagnostics of the JSON decoder and encoder (e.to_string())
DiagSyntax == <<"s", "y", "n", "t", "a", "x", " ", "e", "r", "r", "o", "r">>
DiagUnknownField == <<"u", "n", "k", "n", "o", "w", "n", " ", "f", "i", "e", "l", "d">>
DiagMissingField == <<"m", "i", "s", "s", "i", "n", "g", " ", "f", "i", "e", "l", "d">>
DiagInvalidType == <<"i", "n", "v", "a", "l", "i", "d", " ", "t", "y", "p", "e">>
DiagKey ==
    <<"k", "e", "y", " ", "m", "u", "s", "t", " ", "b", "e", " ", "a", " ",
      "s", "t", "r", "i", "n", "g">>
AppMsg == <<"b", "o", "o", "m">>

\* needle occurs in hay as a contiguous sub-sequence
Contains(hay, needle) ==
    \E i \in 0 .. (Len(hay) - Len(needle)) :
        SubSeq(hay, i + 1, i + Len(needle)) = needle

(* ------------------------- serde_json::Value -------------------------- *)

Null == [k |-> "Null"]
Num(n) == [k |-> "Number", n |-> n]
\* a number with a fractional part, twice/2
Flt(twice) == [k |-> "Number", twice |-> twice]
StrV(s) == [k |-> "String", s |-> s]
Arr(a) == [k |-> "Array", a |-> a]
Obj(o) == [k |-> "Object", o |-> o]

IsInt(v) == v.k = "Number" /\ "n" \in DOMAIN v

\* params values an inbound request may carry
ParamVals ==
    {Null, Num(MaxNum), StrV(Foo), Arr(<<Num(MaxNum - 1), Num(MaxNum)>>),
     Arr(<<Num(MaxNum)>>), Arr(<<Num(MaxNum), StrV(Foo)>>)}

MethodNames == {Empty, Add, Foo}

(* --------------------------- inbound request -------------------------- *)

\* the four fields of JsonRpcRequest
Fields == {"id", "jsonrpc", "method", "params"}

\* what a body may carry under each top-level key ("extra" is any key that
\* is not one of the four); each set holds a wrongly typed value
FieldVals(f) ==
    CASE f = "id" -> {Num(i) : i \in Ids} \cup {StrV(V10)}
      [] f = "jsonrpc" -> {StrV(V20), StrV(V10), StrV(V200), StrV(Empty), Num(2)}
      [] f = "method" -> {StrV(m) : m \in MethodNames} \cup {Null}
      [] f = "params" -> ParamVals
      [] OTHER -> {Null}

AllKeys == Fields \cup {"extra"}

Restrict(f, K) == [x \in K |-> f[x]]

\* the body handed to Json::from_request: not a JSON text at all (or not
\* sent as JSON), or a JSON object over some of the keys
RawRequests ==
    {[kind |-> "malformed"]} \cup
    {[kind |-> "object",
      o |-> Restrict([id |-> i, jsonrpc |-> j, method |-> m, params |-> p,
                      extra |-> Null], K)] :
        K \in SUBSET AllKeys, i \in FieldVals("id"), j \in FieldVals("jsonrpc"),
        m \in FieldVals("method"), p \in FieldVals("params")}

(* ------------------------------ errors -------------------------------- *)

\* JsonRpcErrorReason -> code
ReasonCode(reason) ==
    CASE reason.r = "InvalidRequest" -> -32600
      [] reason.r = "MethodNotFound" -> -32601
      [] reason.r = "InvalidParams" -> -32602
      [] reason.r = "InternalError" -> -32603
      [] reason.r = "ApplicationError" -> reason.code

InvalidRequest == [r |-> "InvalidRequest"]
MethodNotFoundReason == [r |-> "MethodNotFound"]
InvalidParams == [r |-> "InvalidParams"]
InternalError == [r |-> "InternalError"]
ApplicationError(c) == [r |-> "ApplicationError", code |-> c]

\* JsonRpcError::new(reason, message, data)
JsonRpcErrorNew(reason, message, data) ==
    [reason |-> reason.r, code |-> ReasonCode(reason), message |-> message,
     data |-> data]

\* Serialize for JsonRpcError: the error object of the wire format
SerializeError(e) ==
    Obj([code |-> Num(e.code), message |-> StrV(e.message), data |-> e.data])

(* ----------------------------- responses ------------------------------ *)

\* JsonRpcAnswer
AnswerResult(v) == [variant |-> "Result", v |-> v]
AnswerError(e) == [variant |-> "Error", e |-> e]

\* JsonRpcResponse::new
JsonRpcResponseNew(id, result) ==
    [jsonrpc |-> V20, result |-> result, id |-> id]

\* JsonRpcResponse::error
JsonRpcResponseError(id, error) ==
    JsonRpcResponseNew(id, AnswerError(error))

(* ---------------------- decoding the request -------------------------- *)

Ok(v) == [ok |-> TRUE, v |-> v]
Err(e) == [ok |-> FALSE, e |-> e]

\* DecodeRequest without deny_unknown_fields: unknown keys are skipped
DecodeRequest_IgnoresUnknown(raw) ==
    IF raw.kind # "object" THEN Err(DiagSyntax)
    ELSE IF \E f \in Fields : f \notin DOMAIN raw.o THEN Err(DiagMissingField)
    ELSE IF \/ ~IsInt(raw.o.id)
            \/ raw.o.jsonrpc.k # "String"
            \/ raw.o.method.k # "String"
         THEN Err(DiagInvalidType)
    ELSE Ok([id |-> raw.o.id.n, jsonrpc |-> raw.o.jsonrpc.s,
             method |-> raw.o.method.s, params |-> raw.o.params])

\* Json<JsonRpcRequest>::from_request: the derived Deserialize of
\* JsonRpcRequest with deny_unknown_fields
DecodeRequest(raw) ==
    IF raw.kind # "object" THEN Err(DiagSyntax)
    ELSE IF \E f \in DOMAIN raw.o : f \notin Fields THEN Err(DiagUnknownField)
    ELSE IF \E f \in Fields : f \notin DOMAIN raw.o THEN Err(DiagMissingField)
    ELSE IF \/ ~IsInt(raw.o.id)
            \/ raw.o.jsonrpc.k # "String"
            \/ raw.o.method.k # "String"
         THEN Err(DiagInvalidType)
    ELSE Ok([id |-> raw.o.id.n, jsonrpc |-> raw.o.jsonrpc.s,
             method |-> raw.o.method.s, params |-> raw.o.params])

\* from_request that also rejects an empty method name
FromRequestResult_RejectsEmptyMethod(raw) ==
    LET json == DecodeRequest(raw) IN
    IF ~json.ok
    THEN Err([id |-> 0, jsonrpc |-> V20,
              result |-> AnswerError(JsonRpcErrorNew(InvalidRequest, json.e, Null))])
    ELSE LET parsed == json.v IN
         IF parsed.jsonrpc # V20 \/ parsed.method = Empty
         THEN Err([id |-> parsed.id, jsonrpc |-> V20,
                   result |-> AnswerError(
                       JsonRpcErrorNew(InvalidRequest, InvalidVersionMsg, Null))])
         ELSE Ok([parsed |-> parsed.params, method |-> parsed.method,
                  id |-> parsed.id])

\* from_request whose version rejection carries the sentinel id
FromRequestResult_VersionIdZero(raw) ==
    LET json == DecodeRequest(raw) IN
    IF ~json.ok
    THEN Err([id |-> 0, jsonrpc |-> V20,
              result |-> AnswerError(JsonRpcErrorNew(InvalidRequest, json.e, Null))])
    ELSE LET parsed == json.v IN
         IF parsed.jsonrpc # V20
         THEN Err([id |-> 0, jsonrpc |-> V20,
                   result |-> AnswerError(
                       JsonRpcErrorNew(InvalidRequest, InvalidVersionMsg, Null))])
         ELSE Ok([parsed |-> parsed.params, method |-> parsed.method,
                  id |-> parsed.id])

\* from_request whose version rejection echoes the request's jsonrpc
FromRequestResult_EchoesVersion(raw) ==
    LET json == DecodeRequest(raw) IN
    IF ~json.ok
    THEN Err([id |-> 0, jsonrpc |-> V20,
              result |-> AnswerError(JsonRpcErrorNew(InvalidRequest, json.e, Null))])
    ELSE LET parsed == json.v IN
         IF parsed.jsonrpc # V20
         THEN Err([id |-> parsed.id, jsonrpc |-> parsed.jsonrpc,
                   result |-> AnswerError(
                       JsonRpcErrorNew(InvalidRequest, InvalidVersionMsg, Null))])
         ELSE Ok([parsed |-> parsed.params, method |-> parsed.method,
                  id |-> parsed.id])

\* the value from_request returns: Ok(JsonRpcExtractor) or Err(JsonRpcResponse)
FromRequestResult(raw) ==
    LET json == DecodeRequest(raw) IN
    IF ~json.ok
    THEN Err([id |-> 0, jsonrpc |-> V20,
              result |-> AnswerError(JsonRpcErrorNew(InvalidRequest, json.e, Null))])
    ELSE LET parsed == json.v IN
         IF parsed.jsonrpc # V20
         THEN Err([id |-> parsed.id, jsonrpc |-> V20,
                   result |-> AnswerError(
                       JsonRpcErrorNew(InvalidRequest, InvalidVersionMsg, Null))])
         ELSE Ok([parsed |-> parsed.params, method |-> parsed.method,
                  id |-> parsed.id])

(* ------------------- typed values and their JSON form ----------------- *)

\* Rust values of the types a handler asks parse_params for or hands to success
I64(n) == [ty |-> "i64", n |-> n]
RString(str) == [ty |-> "String", s |-> str]
Pair(a, b) == [ty |-> "[i64;2]", a |-> <<a, b>>]
Unit == [ty |-> "()"]
None == [ty |-> "Option<i64>", some |-> FALSE]
Some(n) == [ty |-> "Option<i64>", some |-> TRUE, n |-> n]
RValue(v) == [ty |-> "Value", v |-> v]
F64(twice) == [ty |-> "f64", cls |-> "finite", twice |-> twice]
NaN == [ty |-> "f64", cls |-> "NaN"]
Infinity == [ty |-> "f64", cls |-> "inf"]
\* a map with string keys, and one keyed by pairs
StrMap(m) == [ty |-> "Map<String,i64>", m |-> m]
PairMap(m) == [ty |-> "Map<(i64,i64),i64>", pm |-> m]

Types == {"i64", "String", "[i64;2]", "()", "Option<i64>", "Value", "f64",
          "Map<String,i64>"}

\* serde_json::from_value::<T>(v)
FromValue(T, v) ==
    CASE T = "i64" ->
            IF IsInt(v) THEN Ok(I64(v.n)) ELSE Err(DiagInvalidType)
      [] T = "String" ->
            IF v.k = "String" THEN Ok(RString(v.s)) ELSE Err(DiagInvalidType)
      [] T = "[i64;2]" ->
            IF v.k = "Array" /\ Len(v.a) = 2 /\ \A i \in 1 .. 2 : IsInt(v.a[i])
            THEN Ok(Pair(v.a[1].n, v.a[2].n)) ELSE Err(DiagInvalidType)
      [] T = "()" ->
            IF v.k = "Null" THEN Ok(Unit) ELSE Err(DiagInvalidType)
      [] T = "Option<i64>" ->
            IF v.k = "Null" THEN Ok(None)
            ELSE IF IsInt(v) THEN Ok(Some(v.n)) ELSE Err(DiagInvalidType)
      [] T = "Value" -> Ok(RValue(v))
      [] T = "f64" ->
            IF v.k # "Number" THEN Err(DiagInvalidType)
            ELSE IF IsInt(v) THEN Ok(F64(2 * v.n)) ELSE Ok(F64(v.twice))
      [] T = "Map<String,i64>" ->
            IF v.k = "Object" /\ \A f \in DOMAIN v.o : IsInt(v.o[f])
            THEN Ok(StrMap([f \in DOMAIN v.o |-> v.o[f].n]))
            ELSE Err(DiagInvalidType)
      [] OTHER -> Err(DiagInvalidType)

\* serde_json::to_value(p): a float that is not finite becomes null, a map
\* whose keys are not strings is an error
ToValue(p) ==
    CASE p.ty = "i64" -> Ok(Num(p.n))
      [] p.ty = "String" -> Ok(StrV(p.s))
      [] p.ty = "[i64;2]" -> Ok(Arr(<<Num(p.a[1]), Num(p.a[2])>>))
      [] p.ty = "()" -> Ok(Null)
      [] p.ty = "Option<i64>" -> IF p.some THEN Ok(Num(p.n)) ELSE Ok(Null)
      [] p.ty = "Value" -> Ok(p.v)
      [] p.ty = "f64" -> IF p.cls = "finite" THEN Ok(Flt(p.twice)) ELSE Ok(Null)
      [] p.ty = "Map<String,i64>" -> Ok(Obj([f \in DOMAIN p.m |-> Num(p.m[f])]))
      [] OTHER -> Err(DiagKey)

\* payloads a handler may hand to success
Payloads ==
    {I64(MaxNum), RString(Foo), RString(Empty), Pair(MaxNum - 1, MaxNum), Unit,
     None, Some(MaxNum), RValue(Arr(<<Num(MaxNum)>>)), F64(MaxNum), NaN, Infinity,
     StrMap([a |-> MaxNum]), PairMap({<<<<0, MaxNum>>, MaxNum>>})}

(* ----------------------- JsonRpcExtractor methods --------------------- *)

\* get_answer_id(&self)
GetAnswerIdResult(self) == self.id

\* method(&self)
MethodResult(self) == self.method

\* parse_params that answers a decode failure under the sentinel id
ParseParamsResult_IdZero(self, T) ==
    LET value == FromValue(T, self.parsed) IN
    IF value.ok THEN Ok(value.v)
    ELSE Err(JsonRpcResponseError(0,
                 JsonRpcErrorNew(InvalidParams, value.e, Null)))

\* parse_params::<T>(self)
ParseParamsResult(self, T) ==
    LET value == FromValue(T, self.parsed) IN
    IF value.ok THEN Ok(value.v)
    ELSE Err(JsonRpcResponseError(self.id,
                 JsonRpcErrorNew(InvalidParams, value.e, Null)))

\* method_not_found that formats the handle's own method
MethodNotFoundResult_OwnMethod(self, method) ==
    JsonRpcResponseError(self.id,
        JsonRpcErrorNew(MethodNotFoundReason,
                        MethodPrefix \o self.method \o MethodSuffix, Null))

\* method_not_found(&self, method)
MethodNotFoundResult(self, method) ==
    JsonRpcResponseError(self.id,
        JsonRpcErrorNew(MethodNotFoundReason,
                        MethodPrefix \o method \o MethodSuffix, Null))

(* ------------------------- JsonRpcResponse ---------------------------- *)

\* success that reports an encoding failure as Invalid Params
JsonRpcResponseSuccess_WrongReason(id, payload) ==
    LET result == ToValue(payload) IN
    IF ~result.ok
    THEN JsonRpcResponseError(id, JsonRpcErrorNew(InvalidParams, result.e, Null))
    ELSE JsonRpcResponseNew(id, AnswerResult(result.v))

\* success that drops the encoded value
JsonRpcResponseSuccess_DropsValue(id, payload) ==
    LET result == ToValue(payload) IN
    IF ~result.ok
    THEN JsonRpcResponseError(id, JsonRpcErrorNew(InternalError, result.e, Null))
    ELSE JsonRpcResponseNew(id, AnswerResult(Null))

\* JsonRpcResponse::success(id, result)
JsonRpcResponseSuccess(id, payload) ==
    LET result == ToValue(payload) IN
    IF ~result.ok
    THEN JsonRpcResponseError(id, JsonRpcErrorNew(InternalError, result.e, Null))
    ELSE JsonRpcResponseNew(id, AnswerResult(result.v))

\* Serialize for the untagged JsonRpcAnswer: the variant's content, no tag
SerializeAnswer(a) ==
    IF a.variant = "Result" THEN a.v ELSE SerializeError(a.e)

\* Serialize for JsonRpcResponse: one key per field of the struct, named
\* after the field; the top-level keys of the body are the DOMAIN
Serialize(r) ==
    [jsonrpc |-> StrV(r.jsonrpc), result |-> SerializeAnswer(r.result),
     id |-> Num(r.id)]

(* ------------------------------ state --------------------------------- *)

NoHandle == [st |-> "none"]
Live(h) == [st |-> "live", h |-> h]
Moved == [st |-> "moved"]

NoResp == [st |-> "none"]
Held(r) == [st |-> "held", r |-> r]

NoWire == [st |-> "none"]
Sent(w) == [st |-> "sent", w |-> w]

\* errors a handler builds itself and passes to JsonRpcResponse::error
HandlerErrors ==
    {JsonRpcErrorNew(ApplicationError(MaxNum), AppMsg, Null),
     JsonRpcErrorNew(InternalError, AppMsg, StrV(Foo))}

\* parse_params taking &self
HandleAfterParseParams_Borrows(h) == h

\* parse_params takes self by value: the handle is moved into the call
HandleAfterParseParams(h) == Moved

\* method_not_found, get_answer_id and method take &self: the handle stays
HandleAfterBorrow(h) == h

Init ==
    /\ handle = NoHandle
    /\ call = [op |-> "init"]
    /\ resp = NoResp
    /\ wire = NoWire

\* a request arrives and the extractor runs; a rejection is the response
FromRequest(raw) ==
    /\ handle.st = "none"
    /\ resp.st = "none"
    /\ LET r == FromRequestResult(raw) IN
        /\ call' = [op |-> "from_request", arg |-> raw, ret |-> r]
        /\ handle' = IF r.ok THEN Live(r.v) ELSE NoHandle
        /\ resp' = IF r.ok THEN NoResp ELSE Held(r.e)
    /\ wire' = NoWire

GetAnswerId ==
    /\ handle.st = "live"
    /\ call' = [op |-> "get_answer_id", self |-> handle.h,
                ret |-> GetAnswerIdResult(handle.h)]
    /\ handle' = HandleAfterBorrow(handle)
    /\ UNCHANGED <<resp, wire>>

Method ==
    /\ handle.st = "live"
    /\ call' = [op |-> "method", self |-> handle.h, ret |-> MethodResult(handle.h)]
    /\ handle' = HandleAfterBorrow(handle)
    /\ UNCHANGED <<resp, wire>>

ParseParams(T) ==
    /\ handle.st = "live"
    /\ LET r == ParseParamsResult(handle.h, T) IN
        /\ call' = [op |-> "parse_params", self |-> handle.h, T |-> T, ret |-> r]
        /\ resp' = IF r.ok THEN resp ELSE Held(r.e)
    /\ handle' = HandleAfterParseParams(handle)
    /\ UNCHANGED wire

MethodNotFound(m) ==
    /\ handle.st = "live"
    /\ LET r == MethodNotFoundResult(handle.h, m) IN
        /\ call' = [op |-> "method_not_found", self |-> handle.h, method |-> m,
                    ret |-> r]
        /\ resp' = Held(r)
    /\ handle' = HandleAfterBorrow(handle)
    /\ UNCHANGED wire

\* JsonRpcResponse::success, an associated function: it needs no handle
Success(id, payload) ==
    /\ LET r == JsonRpcResponseSuccess(id, payload) IN
        /\ call' = [op |-> "success", id |-> id, payload |-> payload, ret |-> r]
        /\ resp' = Held(r)
    /\ UNCHANGED <<handle, wire>>

\* JsonRpcResponse::error
Error(id, error) ==
    /\ LET r == JsonRpcResponseError(id, error) IN
        /\ call' = [op |-> "error", id |-> id, error |-> error, ret |-> r]
        /\ resp' = Held(r)
    /\ UNCHANGED <<handle, wire>>

\* into_response(self): the handler (or the rejected extractor) has returned
\* the response, which is serialized as the body; the handle is dropped
IntoResponse ==
    /\ resp.st = "held"
    /\ call' = [op |-> "into_response", self |-> resp.r]
    /\ wire' = Sent(Serialize(resp.r))
    /\ resp' = NoResp
    /\ handle' = NoHandle

Next ==
    \/ \E raw \in RawRequests : FromRequest(raw)
    \/ GetAnswerId
    \/ Method
    \/ \E T \in Types : ParseParams(T)
    \/ \E m \in MethodNames : MethodNotFound(m)
    \/ \E id \in Ids, payload \in Payloads : Success(id, payload)
    \/ \E id \in Ids, error \in HandlerErrors : Error(id, error)
    \/ IntoResponse

Spec == Init /\ [][Next]_vars

(* ------------------------------ claims -------------------------------- *)

\* the body is an object with exactly the four fields, each well typed
StructurallyValid(raw) ==
    /\ raw.kind = "object"
    /\ DOMAIN raw.o = Fields
    /\ IsInt(raw.o.id)
    /\ raw.o.jsonrpc.k = "String"
    /\ raw.o.method.k = "String"

IsErrorResponse(r, reason, code) ==
    /\ r.result.variant = "Error"
    /\ r.result.e.reason = reason
    /\ r.result.e.code = code
    /\ r.result.e.data = Null

\* C1: a structurally valid request whose jsonrpc is "2.0" is accepted, and the
\* handle carries the request's id, method and params, the empty method included
C1_ValidRequestAccepted ==
    (call.op = "from_request" /\ StructurallyValid(call.arg)
        /\ call.arg.o.jsonrpc.s = V20)
    => /\ call.ret.ok
       /\ call.ret.v.id = call.arg.o.id.n
       /\ call.ret.v.method = call.arg.o.method.s
       /\ call.ret.v.parsed = call.arg.o.params
       /\ handle = Live(call.ret.v)
       /\ resp = NoResp

C1_Witness ==
    /\ call.op = "from_request" /\ StructurallyValid(call.arg)
    /\ call.arg.o.jsonrpc.s = V20
    /\ call.arg.o.method.s = Empty
    /\ call.arg.o.id.n # 0
    /\ handle.st = "live" /\ handle.h.method = Empty

\* C2: a structurally valid request whose jsonrpc is not "2.0" is rejected with
\* Invalid Request (-32600), "Invalid jsonrpc version", data null, the request's id
C2_VersionRejected ==
    (call.op = "from_request" /\ StructurallyValid(call.arg)
        /\ call.arg.o.jsonrpc.s # V20)
    => /\ ~call.ret.ok
       /\ IsErrorResponse(call.ret.e, "InvalidRequest", -32600)
       /\ call.ret.e.result.e.message = InvalidVersionMsg
       /\ call.ret.e.id = call.arg.o.id.n
       /\ handle = NoHandle
       /\ resp = Held(call.ret.e)

C2_Witness ==
    /\ call.op = "from_request" /\ StructurallyValid(call.arg)
    /\ call.arg.o.jsonrpc.s = V10
    /\ call.arg.o.id.n # 0
    /\ resp.st = "held" /\ resp.r.id = call.arg.o.id.n

\* C3: a request that lacks one of the four fields or has another field is a
\* structural rejection with id 0, whatever its jsonrpc and id
C3_StructuralRejection ==
    (call.op = "from_request" /\ call.arg.kind = "object"
        /\ DOMAIN call.arg.o # Fields)
    => /\ ~call.ret.ok
       /\ call.ret.e.id = 0
       /\ call.ret.e.result.variant = "Error"
       /\ call.ret.e.result.e.message # InvalidVersionMsg
       /\ handle = NoHandle
       /\ resp = Held(call.ret.e)

C3_Witness ==
    /\ call.op = "from_request" /\ call.arg.kind = "object"
    /\ DOMAIN call.arg.o = Fields \cup {"extra"}
    /\ IsInt(call.arg.o.id) /\ call.arg.o.id.n # 0
    /\ call.arg.o.jsonrpc = StrV(V10)
    /\ call.arg.o.method.k = "String"
    /\ resp.st = "held" /\ resp.r.id = 0

\* C4: parse_params returns the decoded value when params decode into T, and
\* otherwise returns as Err an Invalid Params (-32602) response, data null, with
\* the handle's id
C4_ParseParams ==
    call.op = "parse_params"
    => LET decoded == FromValue(call.T, call.self.parsed) IN
       IF decoded.ok
       THEN call.ret = Ok(decoded.v)
       ELSE /\ ~call.ret.ok
            /\ IsErrorResponse(call.ret.e, "InvalidParams", -32602)
            /\ call.ret.e.id = call.self.id

C4_Witness ==
    /\ call.op = "parse_params"
    /\ ~FromValue(call.T, call.self.parsed).ok
    /\ call.self.id # 0
    /\ ~call.ret.ok /\ resp = Held(call.ret.e)

\* C5: method_not_found(m) is a Method Not Found (-32601) response, data null,
\* with the handle's id and a message built around the argument m
C5_MethodNotFound ==
    call.op = "method_not_found"
    => /\ IsErrorResponse(call.ret, "MethodNotFound", -32601)
       /\ call.ret.id = call.self.id
       /\ Contains(call.ret.result.e.message, call.method)
       /\ call.ret.result.e.message = MethodPrefix \o call.method \o MethodSuffix

C5_Witness ==
    /\ call.op = "method_not_found"
    /\ call.method = Foo /\ call.self.method = Add
    /\ call.self.id # 0
    /\ ~Contains(call.ret.result.e.message, call.self.method)

\* C6: the serialized response has the key result and not error for a Success,
\* the key error and not result for a Failure
C6_ExactlyOneOfResultError ==
    call.op = "into_response"
    => LET keys == DOMAIN wire.w IN
       IF call.self.result.variant = "Result"
       THEN "result" \in keys /\ "error" \notin keys
       ELSE "error" \in keys /\ "result" \notin keys

\* C7: when the payload does not encode, success returns an Internal Error
\* (-32603) response, data null, with the id passed in
C7_SuccessFallback ==
    (call.op = "success" /\ ~ToValue(call.payload).ok)
    => /\ IsErrorResponse(call.ret, "InternalError", -32603)
       /\ call.ret.id = call.id
       /\ resp = Held(call.ret)

C7_Witness ==
    /\ call.op = "success" /\ ~ToValue(call.payload).ok
    /\ call.id # 0
    /\ resp.st = "held" /\ resp.r.result.variant = "Error"

\* JSON has no NaN or infinity, and the keys of its objects are strings
Representable(p) ==
    /\ p.ty # "Map<(i64,i64),i64>"
    /\ p.ty = "f64" => p.cls = "finite"

\* C8: for a representable payload, success returns a Success response with the
\* id passed in, whose result decodes back into the payload
C8_SuccessRoundTrip ==
    (call.op = "success" /\ Representable(call.payload))
    => /\ call.ret.result.variant = "Result"
       /\ call.ret.id = call.id
       /\ FromValue(call.payload.ty, call.ret.result.v) = Ok(call.payload)

C8_Witness ==
    /\ call.op = "success"
    /\ call.payload = Pair(MaxNum - 1, MaxNum)
    /\ call.id # 0
    /\ resp.st = "held" /\ resp.r.result = AnswerResult(Arr(<<Num(MaxNum - 1), Num(MaxNum)>>))

\* C9: every response, held or serialized, whatever built it, has jsonrpc "2.0"
C9_VersionAlways20 ==
    /\ resp.st = "held" => resp.r.jsonrpc = V20
    /\ wire.st = "sent" => wire.w.jsonrpc = StrV(V20)
    /\ (call.op = "from_request" /\ ~call.ret.ok) => call.ret.e.jsonrpc = V20

C9_Witness ==
    /\ call.op = "from_request" /\ StructurallyValid(call.arg)
    /\ call.arg.o.jsonrpc.s = V10
    /\ resp.st = "held" /\ resp.r.jsonrpc = V20

\* an operation on the handle
HandleOp ==
    \/ GetAnswerId
    \/ Method
    \/ \E T \in Types : ParseParams(T)
    \/ \E m \in MethodNames : MethodNotFound(m)

\* C10 as stated: after parse_params or method_not_found no operation on the
\* handle can be performed
C10_ConsumedByEither ==
    call.op \in {"parse_params", "method_not_found"} => ~ENABLED HandleOp

\* C10 as amended: parse_params alone ends the handle's lifetime; after
\* method_not_found, get_answer_id or method the handle is as it was and every
\* operation can still be performed
C10_ConsumedByParseParams ==
    /\ call.op = "parse_params" => handle.st = "moved"
    /\ handle.st # "live" => ~ENABLED HandleOp
    /\ call.op \in {"method_not_found", "get_answer_id", "method"}
        => /\ handle = Live(call.self)
           /\ ENABLED GetAnswerId /\ ENABLED Method
           /\ \A T \in Types : ENABLED ParseParams(T)
           /\ \A m \in MethodNames : ENABLED MethodNotFound(m)

\* method_not_found, then parse_params on the same handle
C10_Witness ==
    /\ call.op = "parse_params" /\ call.ret.ok
    /\ handle.st = "moved"
    /\ resp.st = "held"
    /\ IsErrorResponse(resp.r, "MethodNotFound", -32601)
    /\ resp.r.id = call.self.id

====
